---- MODULE Spec2Model ----
(***************************************************************************)
(* Model of metro_tiles.py: the tile layout packer (TileGrid._pack_tiles), *)
(* the JSON configuration persistence (ConfigManager) and the handlers of  *)
(* TileGrid / MainWindow that change the application state.                *)
(***************************************************************************)
EXTENDS Integers, Sequences, FiniteSets, TLC

VARIABLES
    pc,         \* where the program is: "init", "running", "hung", or a harness phase
    state,      \* AppState: [theme, columns, tiles]
    positions,  \* the placements of the last rebuild, one per button, in tile order
    file,       \* the content of config.json
    writable,   \* whether open(path, "w") succeeds in this run
    saved       \* <<s>> once ConfigManager.save(s) was called directly, else <<>>

vars == <<pc, state, positions, file, writable, saved>>

(***************************************************************************)
(* Bounds of the model                                                     *)
(***************************************************************************)
MaxTiles == 2       \* add / duplicate are tried while the list is shorter
MaxTime == 2        \* int(time.time()) is drawn from 1..MaxTime
MaxPackTiles == 4   \* longest tile list handed to the packer on its own

(***************************************************************************)
(* Program constants                                                       *)
(***************************************************************************)
DEFAULT_COLUMNS == 4
MinColumns == 2
MaxColumns == 8

None == "None"      \* Python's None (icon_path)
JNull == "null"     \* JSON null

(***************************************************************************)
(* Tile and AppState                                                       *)
(***************************************************************************)
TileFields ==
    {"id", "title", "color", "icon_path", "action_type", "action_value",
     "size", "row", "col"}

\* Tile(id, title, color, icon_path, action_type, action_value, size) with the
\* dataclass defaults row = 0, col = 0
Tile(id, title, color, icon_path, action_type, action_value, size) ==
    [id |-> id, title |-> title, color |-> color, icon_path |-> icon_path,
     action_type |-> action_type, action_value |-> action_value,
     size |-> size, row |-> 0, col |-> 0]

\* the dataclass defaults of the optional fields
TileDefaults ==
    [color |-> "#0078D7", icon_path |-> None, action_type |-> "url",
     action_value |-> "", size |-> "small", row |-> 0, col |-> 0]

AppState(theme, columns, tiles) ==
    [theme |-> theme, columns |-> columns, tiles |-> tiles]

\* f"tile_{int(time.time())}"
TimeId(now) == "tile_" \o ToString(now)

(***************************************************************************)
(* The packer                                                              *)
(***************************************************************************)
\* SIZE_MAP with the spans of "wide" written as (columns, rows)
SIZE_MAP_transposed(size) ==
    CASE size = "small" -> <<1, 1>>
      [] size = "wide"  -> <<2, 1>>
      [] size = "large" -> <<2, 2>>
      [] OTHER          -> <<1, 1>>

\* SIZE_MAP.get(size, (1,1)) as <<rowspan, colspan>>
SIZE_MAP(size) ==
    CASE size = "small" -> <<1, 1>>
      [] size = "wide"  -> <<1, 2>>
      [] size = "large" -> <<2, 2>>
      [] OTHER          -> <<1, 1>>

\* the cells of the rectangle (r, c, rspan, cspan)
Rect(r, c, rspan, cspan) ==
    {<<rr, cc>> : rr \in r..(r + rspan - 1), cc \in c..(c + cspan - 1)}

\* the occupancy test looking at the top-left cell only
RectFree_corner(occupancy, r, c, rspan, cspan) == <<r, c>> \notin occupancy

\* the inner loops of first_fit: no cell of the rectangle is occupied
RectFree(occupancy, r, c, rspan, cspan) ==
    \A rr \in r..(r + rspan - 1) : \A cc \in c..(c + cspan - 1) :
        <<rr, cc>> \notin occupancy

\* for c in range(columns): the first c of row r that is accepted, or -1
RECURSIVE first_fit_col(_, _, _, _, _, _)
first_fit_col(occupancy, columns, r, c, rspan, cspan) ==
    IF c >= columns THEN -1
    ELSE IF c + cspan > columns
        THEN first_fit_col(occupancy, columns, r, c + 1, rspan, cspan)
    ELSE IF RectFree(occupancy, r, c, rspan, cspan) THEN c
    ELSE first_fit_col(occupancy, columns, r, c + 1, rspan, cspan)

\* one more than the last occupied row
RowsUsed(occupancy) ==
    IF occupancy = {} THEN 0
    ELSE (CHOOSE m \in {p[1] : p \in occupancy} :
             \A p \in occupancy : p[1] <= m) + 1

\* while True: scan row r, r += 1.  Row r >= RowsUsed(occupancy) is empty and
\* so is every row after it: when nothing is accepted there, the scan of each
\* later row repeats it and the loop never returns; that outcome is <<-1, -1>>.
RECURSIVE first_fit_row(_, _, _, _, _)
first_fit_row(occupancy, columns, r, rspan, cspan) ==
    LET c == first_fit_col(occupancy, columns, r, 0, rspan, cspan)
    IN  IF c >= 0 THEN <<r, c>>
        ELSE IF r >= RowsUsed(occupancy) THEN <<-1, -1>>
        ELSE first_fit_row(occupancy, columns, r + 1, rspan, cspan)

\* a scan that starts below everything placed so far
first_fit_below(occupancy, columns, rspan, cspan) ==
    first_fit_row(occupancy, columns, RowsUsed(occupancy), rspan, cspan)

first_fit(occupancy, columns, rspan, cspan) ==
    first_fit_row(occupancy, columns, 0, rspan, cspan)

\* for t in tiles: place tile i, write t.row, t.col, append the position
\* (rc is first_fit's result, evaluated once)
RECURSIVE pack_loop(_, _, _, _, _)
pack_loop(tiles, columns, i, occupancy, acc) ==
    IF i > Len(tiles) THEN [tiles |-> tiles, positions |-> acc, hung |-> FALSE]
    ELSE
        LET rspan == SIZE_MAP(tiles[i].size)[1]
            cspan == SIZE_MAP(tiles[i].size)[2]
        IN  LET rc == CHOOSE v \in {first_fit(occupancy, columns, rspan, cspan)} :
                        TRUE
            IN  IF rc[1] < 0
                THEN [tiles |-> tiles, positions |-> acc, hung |-> TRUE]
                ELSE pack_loop(
                        [tiles EXCEPT ![i].row = rc[1], ![i].col = rc[2]],
                        columns, i + 1,
                        occupancy \cup Rect(rc[1], rc[2], rspan, cspan),
                        Append(acc, [id |-> tiles[i].id, row |-> rc[1],
                                     col |-> rc[2], rowspan |-> rspan,
                                     colspan |-> cspan]))

\* _pack_tiles(tiles, columns): the tiles with row and col written, the
\* positions, and whether first_fit never returned
pack_tiles(tiles, columns) == pack_loop(tiles, columns, 1, {}, <<>>)

(***************************************************************************)
(* ConfigManager                                                           *)
(***************************************************************************)
HomeDir == "/home/user"     \* os.path.expanduser("~")
EditorCommand == "gedit"    \* the command of the Notepad tile off Windows and macOS

\* ConfigManager._default_state()
default_state ==
    AppState("dark", DEFAULT_COLUMNS,
        << Tile("tile_browser", "Browser", "#0078D7", None, "url",
                "https://www.example.com", "wide"),
           Tile("tile_docs", "Documents", "#107C10", None, "file", HomeDir, "small"),
           Tile("tile_cmd", "Notepad", "#D83B01", None, "command", EditorCommand,
                "small"),
           Tile("tile_clock", "Clock", "#5C2D91", None, "builtin", "clock", "large"),
           Tile("tile_settings", "Settings", "#FFB900", None, "builtin", "settings",
                "small") >>)

\* json.dump of a str-or-None value, and json.load of it
ToJson(v) == IF v = None THEN JNull ELSE v
FromJson(v) == IF v = JNull THEN None ELSE v

\* asdict without the position fields
asdict_no_position(t) ==
    [id |-> ToJson(t.id), title |-> ToJson(t.title), color |-> ToJson(t.color),
     icon_path |-> ToJson(t.icon_path), action_type |-> ToJson(t.action_type),
     action_value |-> ToJson(t.action_value), size |-> ToJson(t.size)]

\* asdict(t) as json.dump writes it
asdict(t) ==
    [id |-> ToJson(t.id), title |-> ToJson(t.title), color |-> ToJson(t.color),
     icon_path |-> ToJson(t.icon_path), action_type |-> ToJson(t.action_type),
     action_value |-> ToJson(t.action_value), size |-> ToJson(t.size),
     row |-> t.row, col |-> t.col]

\* the payload of ConfigManager.save(state) as the content of the file
save(s) ==
    [kind |-> "json",
     data |-> [theme |-> ToJson(s.theme), columns |-> s.columns,
               tiles |-> [i \in 1..Len(s.tiles) |-> asdict(s.tiles[i])]]]

\* d.get(k, default)
Get(d, k, default) == IF k \in DOMAIN d THEN d[k] ELSE default

\* Tile(**d) raises TypeError unless id and title are given and every key is a field
CanTile(d) == {"id", "title"} \subseteq DOMAIN d /\ DOMAIN d \subseteq TileFields

\* Tile(**d) for a dict read from JSON
TileFromDict(d) ==
    [f \in TileFields |->
        IF f \in DOMAIN d
        THEN (IF f \in {"row", "col"} THEN d[f] ELSE FromJson(d[f]))
        ELSE TileDefaults[f]]

\* load() that drops the entries Tile(**t) rejects instead of giving up
load_skip_bad(f) ==
    IF f.kind = "missing" THEN default_state
    ELSE IF f.kind # "json" THEN default_state
    ELSE LET data == f.data
             dicts == SelectSeq(Get(data, "tiles", <<>>), CanTile)
         IN  AppState(FromJson(Get(data, "theme", "dark")),
                      Get(data, "columns", DEFAULT_COLUMNS),
                      [i \in 1..Len(dicts) |-> TileFromDict(dicts[i])])

\* ConfigManager.load()
load(f) ==
    IF f.kind = "missing" THEN default_state
    ELSE IF f.kind # "json" THEN default_state
    ELSE LET data == f.data
             dicts == Get(data, "tiles", <<>>)
         IN  IF \E i \in 1..Len(dicts) : ~CanTile(dicts[i])
             THEN default_state
             ELSE AppState(FromJson(Get(data, "theme", "dark")),
                           Get(data, "columns", DEFAULT_COLUMNS),
                           [i \in 1..Len(dicts) |-> TileFromDict(dicts[i])])

(***************************************************************************)
(* The packer on its own: every tile list up to MaxPackTiles, every column *)
(* count from 0 to one past the largest the settings offer                 *)
(***************************************************************************)
PackSizes == {"small", "wide", "large", "huge"}
PackColumns == 0..(MaxColumns + 1)

PackTileLists ==
    UNION { { [i \in 1..n |-> Tile(TimeId(i), "Tile", "#0078D7", None, "url", "",
                                   sz[i])] : sz \in [1..n -> PackSizes] }
            : n \in 0..MaxPackTiles }

PackInit ==
    /\ pc = "pack"
    /\ state \in {AppState("dark", c, ts) : c \in PackColumns, ts \in PackTileLists}
    /\ positions = <<>>
    /\ file = [kind |-> "missing"]
    /\ writable = TRUE
    /\ saved = <<>>

\* positions = self._pack_tiles(self.state.tiles, self.state.columns)
PackStep ==
    /\ pc = "pack"
    /\ \E p \in {pack_tiles(state.tiles, state.columns)} :
           /\ pc' = IF p.hung THEN "hung" ELSE "packed"
           /\ state' = [state EXCEPT !.tiles = p.tiles]
           /\ positions' = IF p.hung THEN <<>> ELSE p.positions
    /\ UNCHANGED <<file, writable, saved>>

PackNext == PackStep

SpecPack == PackInit /\ [][PackNext]_vars

(***************************************************************************)
(* ConfigManager on its own: load and save from a set of files and states  *)
(***************************************************************************)
MailTile ==
    [id |-> "tile_1", title |-> "Mail", color |-> "#107C10",
     icon_path |-> "mail.png", action_type |-> "command",
     action_value |-> "thunderbird", size |-> "large", row |-> 1, col |-> 2]

PlainTile ==
    [id |-> "tile_2", title |-> "Tile", color |-> "#0078D7", icon_path |-> None,
     action_type |-> "url", action_value |-> "", size |-> "wide",
     row |-> 0, col |-> 0]

SaveTileLists ==
    { <<>>, <<MailTile>>, <<PlainTile>>, <<MailTile, PlainTile>>,
      <<PlainTile, MailTile>>, <<PlainTile, PlainTile>> }

SaveStates ==
    {AppState(th, c, ts) : th \in {"dark", "light"}, c \in {MinColumns, 5},
                           ts \in SaveTileLists}

\* contents of config.json
FileTheme == [kind |-> "json", data |-> [theme |-> "light"]]

FileNarrow == [kind |-> "json", data |-> [columns |-> 1, tiles |-> <<>>]]

FileNarrowWide ==
    [kind |-> "json",
     data |-> [theme |-> "light", columns |-> 1,
               tiles |-> << [id |-> "tile_1", title |-> "Mail"],
                            [id |-> "tile_2", title |-> "Web", size |-> "wide"] >>]]

FileSameIds ==
    [kind |-> "json",
     data |-> [theme |-> "dark", columns |-> 3,
               tiles |-> << [id |-> "tile_1", title |-> "Mail", size |-> "huge",
                             icon_path |-> JNull, row |-> 4, col |-> 1],
                            [id |-> "tile_1", title |-> "Web", size |-> "large",
                             action_type |-> "builtin",
                             action_value |-> "settings"] >>]]

FileNoTitle ==          \* an entry with no title
    [kind |-> "json",
     data |-> [theme |-> "light", columns |-> 3,
               tiles |-> << [id |-> "tile_1", title |-> "Mail"],
                            [id |-> "tile_2"] >>]]

FileExtraKey ==         \* an entry with a key Tile lacks
    [kind |-> "json",
     data |-> [theme |-> "light", columns |-> 5,
               tiles |-> << [id |-> "tile_1", title |-> "Mail", width |-> 2] >>]]

\* what config.json may hold when load() is called
Files ==
    { [kind |-> "missing"],
      [kind |-> "garbage"],     \* not valid JSON
      FileTheme, FileNarrow, FileNarrowWide, FileSameIds, FileNoTitle,
      FileExtraKey }

CfgInit ==
    /\ pc = "cfg"
    /\ state = AppState("dark", DEFAULT_COLUMNS, <<>>)
    /\ positions = <<>>
    /\ file \in Files
    /\ writable = TRUE
    /\ saved = <<>>

\* state = cfg.load()
CfgLoad ==
    /\ pc \in {"cfg", "saved"}
    /\ state' = load(file)
    /\ pc' = "loaded"
    /\ UNCHANGED <<positions, file, writable, saved>>

\* cfg.save(s)
CfgSave(s) ==
    /\ pc \in {"cfg", "loaded"}
    /\ file' = save(s)
    /\ saved' = <<s>>
    /\ pc' = "saved"
    /\ UNCHANGED <<state, positions, writable>>

CfgNext == CfgLoad \/ \E s \in SaveStates : CfgSave(s)

SpecConfig == CfgInit /\ [][CfgNext]_vars

(***************************************************************************)
(* The application: MainWindow and TileGrid                                *)
(***************************************************************************)
\* MainWindow._auto_save(): the content of the file after cfg.save(st); when
\* open() raises (a read-only file or folder) nothing is written and the
\* exception is printed
auto_save(st) == IF writable THEN save(st) ELSE file

\* rebuild() that calls on_change() before it packs
rebuild_save_first(st) ==
    \E p \in {pack_tiles(st.tiles, st.columns)} :
        /\ state' = [st EXCEPT !.tiles = p.tiles]
        /\ file' = auto_save(st)
        /\ IF p.hung
           THEN /\ pc' = "hung"
                /\ positions' = <<>>
           ELSE /\ pc' = "running"
                /\ positions' = p.positions

\* TileGrid.rebuild(): pack, one button per position, then on_change()
rebuild(st) ==
    \E p \in {pack_tiles(st.tiles, st.columns)} :
      \E packed \in {[st EXCEPT !.tiles = p.tiles]} :
        /\ state' = packed
        /\ IF p.hung
           THEN /\ pc' = "hung"
                /\ positions' = <<>>
                /\ file' = file
           ELSE /\ pc' = "running"
                /\ positions' = p.positions
                /\ file' = auto_save(packed)

\* MainWindow.__init__: load, then TileGrid.__init__ rebuilds
MainWindowInit ==
    /\ pc = "init"
    /\ rebuild(load(file))
    /\ UNCHANGED <<writable, saved>>

\* what the user leaves in the fields of the TileEditor dialog
DialogInputs ==
    { [title |-> "  ", color |-> "#0078D7", size |-> "wide", icon |-> "",
       action_type |-> "url", action_value |-> ""],
      [title |-> " Mail ", color |-> "#107C10", size |-> "large",
       icon |-> "mail.png", action_type |-> "command",
       action_value |-> " thunderbird "] }

\* str.strip() on the texts of DialogInputs
Strip(text) ==
    CASE text = "  " -> ""
      [] text = " Mail " -> "Mail"
      [] text = " thunderbird " -> "thunderbird"
      [] OTHER -> text

\* TileEditor.get_tile()
get_tile(tile, d) ==
    [tile EXCEPT
        !.title = IF Strip(d.title) = "" THEN "Tile" ELSE Strip(d.title),
        !.color = d.color,
        !.size = d.size,
        !.icon_path = IF Strip(d.icon) = "" THEN None ELSE Strip(d.icon),
        !.action_type = d.action_type,
        !.action_value = Strip(d.action_value)]

\* TileGrid._index_of(tile): the first index whose tile has that id, 0 for None
index_of(tiles, tile) ==
    IF \E k \in 1..Len(tiles) : tiles[k].id = tile.id
    THEN CHOOSE k \in 1..Len(tiles) :
            /\ tiles[k].id = tile.id
            /\ \A m \in 1..(k - 1) : tiles[m].id # tile.id
    ELSE 0

\* tiles[i], tiles[j] = tiles[j], tiles[i]
Swap(tiles, i, j) == [tiles EXCEPT ![i] = tiles[j], ![j] = tiles[i]]

Max(a, b) == IF a >= b THEN a ELSE b
Min(a, b) == IF a <= b THEN a ELSE b

\* MainWindow.add_tile()
AddTile(now) ==
    /\ pc = "running"
    /\ Len(state.tiles) < MaxTiles
    /\ \E accepted \in BOOLEAN :
        IF accepted
        THEN LET new == Tile(TimeId(now), "New Tile", TileDefaults.color,
                             TileDefaults.icon_path, TileDefaults.action_type,
                             TileDefaults.action_value, TileDefaults.size)
             IN  \E d \in DialogInputs :
                    rebuild([state EXCEPT !.tiles = Append(@, get_tile(new, d))])
        ELSE UNCHANGED <<pc, state, positions, file>>
    /\ UNCHANGED <<writable, saved>>

\* TileGrid.edit_tile(tile) from the menu of button i
EditTile(i) ==
    /\ pc = "running"
    /\ i \in 1..Len(state.tiles)
    /\ \E accepted \in BOOLEAN :
        IF accepted
        THEN \E d \in DialogInputs :
                rebuild([state EXCEPT !.tiles[i] = get_tile(@, d)])
        ELSE UNCHANGED <<pc, state, positions, file>>
    /\ UNCHANGED <<writable, saved>>

\* TileGrid.duplicate_tile(tile) from the menu of button i
DuplicateTile(i, now) ==
    /\ pc = "running"
    /\ i \in 1..Len(state.tiles)
    /\ Len(state.tiles) < MaxTiles
    /\ rebuild([state EXCEPT
                    !.tiles = Append(@, [state.tiles[i] EXCEPT
                                            !.id = TimeId(now)])])
    /\ UNCHANGED <<writable, saved>>

\* TileGrid.delete_tile(tile) from the menu of button i
DeleteTile(i, yes) ==
    /\ pc = "running"
    /\ i \in 1..Len(state.tiles)
    /\ IF yes
       THEN rebuild([state EXCEPT
                        !.tiles = SelectSeq(@, LAMBDA t :
                                                 t.id # state.tiles[i].id)])
       ELSE UNCHANGED <<pc, state, positions, file>>
    /\ UNCHANGED <<writable, saved>>

\* TileGrid.start_drag(btn) for button i
StartDrag(i) ==
    /\ pc = "running"
    /\ i \in 1..Len(state.tiles)
    /\ LET idx == index_of(state.tiles, state.tiles[i])
       IN  IF idx # 0 /\ idx < Len(state.tiles)
           THEN rebuild([state EXCEPT !.tiles = Swap(@, idx, idx + 1)])
           ELSE UNCHANGED <<pc, state, positions, file>>
    /\ UNCHANGED <<writable, saved>>

\* TileGrid.move_tile(tile, delta) from the menu of button i
MoveTile(i, delta) ==
    /\ pc = "running"
    /\ i \in 1..Len(state.tiles)
    /\ LET idx == index_of(state.tiles, state.tiles[i])
           j == Max(1, Min(Len(state.tiles), idx + delta))
       IN  IF idx # 0 /\ idx # j
           THEN rebuild([state EXCEPT !.tiles = Swap(@, idx, j)])
           ELSE UNCHANGED <<pc, state, positions, file>>
    /\ UNCHANGED <<writable, saved>>

\* TileGrid.activate_tile(tile) for button i: only the settings tile changes the
\* state, through _open_settings(), whose dialog offers a theme and 2..8 columns
ActivateTile(i) ==
    /\ pc = "running"
    /\ i \in 1..Len(state.tiles)
    /\ IF /\ state.tiles[i].action_type = "builtin"
          /\ state.tiles[i].action_value = "settings"
       THEN \E accepted \in BOOLEAN :
              IF accepted
              THEN \E theme \in {"dark", "light"},
                      columns \in MinColumns..MaxColumns :
                      rebuild([state EXCEPT !.theme = theme, !.columns = columns])
              ELSE UNCHANGED <<pc, state, positions, file>>
       ELSE UNCHANGED <<pc, state, positions, file>>
    /\ UNCHANGED <<writable, saved>>

\* MainWindow.toggle_theme()
ToggleTheme ==
    /\ pc = "running"
    /\ LET toggled == [state EXCEPT
                           !.theme = IF @ = "dark" THEN "light" ELSE "dark"]
       IN  /\ state' = toggled
           /\ file' = auto_save(toggled)
    /\ UNCHANGED <<pc, positions, writable, saved>>

\* MainWindow._change_columns(delta)
ChangeColumns(delta) ==
    /\ pc = "running"
    /\ rebuild([state EXCEPT
                    !.columns = Max(MinColumns, Min(MaxColumns, @ + delta))])
    /\ UNCHANGED <<writable, saved>>

\* the Save button of the toolbar: MainWindow._auto_save()
SaveAction ==
    /\ pc = "running"
    /\ file' = auto_save(state)
    /\ UNCHANGED <<pc, state, positions, writable, saved>>

\* the files the application is started from
AppFiles == {FileNarrow, FileNarrowWide, FileSameIds}

Init ==
    /\ pc = "init"
    /\ state = AppState("dark", DEFAULT_COLUMNS, <<>>)
    /\ positions = <<>>
    /\ file \in AppFiles
    /\ writable \in BOOLEAN
    /\ saved = <<>>

Next ==
    \/ MainWindowInit
    \/ \E now \in 1..MaxTime : AddTile(now)
    \/ \E i \in 1..Len(state.tiles) : EditTile(i)
    \/ \E i \in 1..Len(state.tiles), now \in 1..MaxTime : DuplicateTile(i, now)
    \/ \E i \in 1..Len(state.tiles), yes \in BOOLEAN : DeleteTile(i, yes)
    \/ \E i \in 1..Len(state.tiles) : StartDrag(i)
    \/ \E i \in 1..Len(state.tiles), delta \in {-1, 1} : MoveTile(i, delta)
    \/ \E i \in 1..Len(state.tiles) : ActivateTile(i)
    \/ ToggleTheme
    \/ \E delta \in {-1, 1} : ChangeColumns(delta)
    \/ SaveAction

Spec == Init /\ [][Next]_vars

(***************************************************************************)
(* Properties                                                              *)
(***************************************************************************)
\* the grid cells a position covers
Cells(p) == Rect(p.row, p.col, p.rowspan, p.colspan)

\* the cells covered by the positions before the i-th
CellsBefore(i) == UNION {Cells(positions[k]) : k \in 1..(i - 1)}

\* the rectangle lies inside the columns and on free cells
Fits(occupied, columns, r, c, rspan, cspan) ==
    /\ c >= 0
    /\ c + cspan <= columns
    /\ Rect(r, c, rspan, cspan) \cap occupied = {}

\* C1: for a column count in 2..8 the positions returned by _pack_tiles never
\* overlap: no grid cell is covered by the rectangles of two different tiles.
C1_NoOverlap ==
    (pc = "packed" /\ state.columns \in MinColumns..MaxColumns) =>
        \A i, j \in 1..Len(positions) :
            i # j => Cells(positions[i]) \cap Cells(positions[j]) = {}

\* a tile was placed beside the lower half of a large tile
C1_Witness ==
    /\ pc = "packed"
    /\ state.columns \in MinColumns..MaxColumns
    /\ \E i, j \in 1..Len(positions) :
        /\ i # j
        /\ positions[i].rowspan = 2
        /\ positions[j].row = positions[i].row + 1

\* C2: tiles are placed in list order, and each tile gets the first position in
\* row-major order at which its rectangle lies inside the columns and covers no
\* cell of an earlier tile: no earlier position would have fitted.
C2_FirstFit ==
    pc = "packed" =>
        /\ Len(positions) = Len(state.tiles)
        /\ \A i \in 1..Len(positions) :
            LET p == positions[i]
            IN  /\ p.id = state.tiles[i].id
                /\ Fits(CellsBefore(i), state.columns, p.row, p.col,
                        p.rowspan, p.colspan)
                /\ \A r \in 0..p.row : \A c \in 0..(state.columns - 1) :
                    (r < p.row \/ c < p.col) =>
                        ~Fits(CellsBefore(i), state.columns, r, c,
                              p.rowspan, p.colspan)

\* a later tile was placed in a row above an earlier tile
C2_Witness ==
    /\ pc = "packed"
    /\ \E i, j \in 1..Len(positions) :
        i < j /\ positions[j].row < positions[i].row

\* the file is missing, is not JSON, or holds a tile entry without id or title
\* or with a key that is no field of Tile
C3_Malformed ==
    \/ file.kind \in {"missing", "garbage"}
    \/ /\ file.kind = "json"
       /\ "tiles" \in DOMAIN file.data
       /\ \E i \in 1..Len(file.data.tiles) :
            \/ "id" \notin DOMAIN file.data.tiles[i]
            \/ "title" \notin DOMAIN file.data.tiles[i]
            \/ \E k \in DOMAIN file.data.tiles[i] : k \notin TileFields

\* C3: when the configuration file is missing or malformed (not valid JSON, or a
\* tile entry that cannot be turned into a Tile), load returns the default
\* state: theme dark, 4 columns, the five default tiles in their order.
C3_DefaultsOnBadFile ==
    (pc = "loaded" /\ C3_Malformed) =>
        /\ state.theme = "dark"
        /\ state.columns = 4
        /\ [i \in 1..Len(state.tiles) |-> state.tiles[i].title]
             = <<"Browser", "Documents", "Notepad", "Clock", "Settings">>
        /\ [i \in 1..Len(state.tiles) |-> state.tiles[i].size]
             = <<"wide", "small", "small", "large", "small">>

\* a file with a well-formed and an ill-formed entry was loaded
C3_Witness ==
    /\ pc = "loaded"
    /\ file = FileNoTitle
    /\ Len(state.tiles) = 5

\* C4: load() after save(s) returns the theme, the columns and the tiles of s,
\* in order, with all nine fields equal.
C4_RoundTrip ==
    (pc = "loaded" /\ saved # <<>>) =>
        /\ state.theme = saved[1].theme
        /\ state.columns = saved[1].columns
        /\ Len(state.tiles) = Len(saved[1].tiles)
        /\ \A i \in 1..Len(state.tiles) :
            /\ DOMAIN state.tiles[i] = TileFields
            /\ \A f \in TileFields : state.tiles[i][f] = saved[1].tiles[i][f]

\* a state with two tiles, an icon path and no icon path, went through the file
C4_Witness ==
    /\ pc = "loaded"
    /\ saved = <<AppState("light", 5, <<MailTile, PlainTile>>)>>
    /\ state.tiles[1].row = 1
    /\ state.tiles[2].icon_path = None

\* C5: when writes succeed, after start-up and after every completed operation
\* the saved configuration equals the in-memory state, including each tile's
\* freshly packed row and col.
C5_AutoSaved ==
    (pc = "running" /\ writable) =>
        /\ file.kind = "json"
        /\ file.data.theme = state.theme
        /\ file.data.columns = state.columns
        /\ Len(file.data.tiles) = Len(state.tiles)
        /\ Len(positions) = Len(state.tiles)
        /\ \A i \in 1..Len(state.tiles) :
            /\ \A f \in TileFields \ {"icon_path"} :
                file.data.tiles[i][f] = state.tiles[i][f]
            /\ file.data.tiles[i].icon_path
                 = (IF state.tiles[i].icon_path = None THEN JNull
                    ELSE state.tiles[i].icon_path)
            /\ file.data.tiles[i].row = positions[i].row
            /\ file.data.tiles[i].col = positions[i].col

\* a state no file holds at start-up, with a tile packed off the origin
C5_Witness ==
    /\ pc = "running"
    /\ writable
    /\ state.theme = "light"
    /\ state.columns = 5
    /\ Len(state.tiles) = 2
    /\ state.tiles[2].title = "Tile"
    /\ state.tiles[2].col > 0
    /\ file.data.tiles[2].col = state.tiles[2].col

\* C6: for every tile list and every column count the state can hold,
\* _pack_tiles terminates and returns one position per tile, in order, and
\* writes it into the tile's row and col.
C6_PacksEveryTile ==
    pc # "init" =>
        /\ pc # "hung"
        /\ Len(positions) = Len(state.tiles)
        /\ \A i \in 1..Len(positions) :
            /\ positions[i].id = state.tiles[i].id
            /\ state.tiles[i].row = positions[i].row
            /\ state.tiles[i].col = positions[i].col

\* C7: every packed tile has the footprint of its size (small 1x1, wide 1 row
\* x 2 columns, large 2x2, any other size 1x1) and lies inside the grid:
\* row >= 0, col >= 0, col + colspan <= columns.
C7_Footprint ==
    pc = "packed" =>
        \A i \in 1..Len(positions) :
            LET p == positions[i]
                size == state.tiles[i].size
            IN  /\ size = "small" => (p.rowspan = 1 /\ p.colspan = 1)
                /\ size = "wide" => (p.rowspan = 1 /\ p.colspan = 2)
                /\ size = "large" => (p.rowspan = 2 /\ p.colspan = 2)
                /\ size \notin {"small", "wide", "large"} =>
                        (p.rowspan = 1 /\ p.colspan = 1)
                /\ p.row >= 0
                /\ p.col >= 0
                /\ p.col + p.colspan <= state.columns

\* a wide, a large and a tile of an unknown size were packed into two columns
C7_Witness ==
    /\ pc = "packed"
    /\ state.columns = 2
    /\ \E i, j, k \in 1..Len(positions) :
        /\ state.tiles[i].size = "wide"
        /\ state.tiles[j].size = "large"
        /\ state.tiles[k].size = "huge"

\* a tile without its position, and a tile list without positions
Content(t) == [t EXCEPT !.row = 0, !.col = 0]
Contents(tiles) == [k \in 1..Len(tiles) |-> Content(tiles[k])]

\* the list b holds the tiles of the list a, each as often
IsPermutation(a, b) ==
    /\ Len(a) = Len(b)
    /\ \A k \in 1..Len(a) :
        Cardinality({m \in 1..Len(a) : Content(a[m]) = Content(a[k])})
          = Cardinality({m \in 1..Len(b) : Content(b[m]) = Content(a[k])})

\* C8: a drag or Move Forward on the tile at index i swaps it with the next
\* tile, Move Back swaps it with the previous one, on the last (first) tile
\* they change nothing, and the list after is a permutation of the list before.
C8_ReorderOnePlace ==
    [][\A i \in 1..Len(state.tiles) :
        /\ (StartDrag(i) \/ MoveTile(i, 1)) =>
            /\ Contents(state'.tiles)
                 = Contents(IF i < Len(state.tiles)
                            THEN Swap(state.tiles, i, i + 1) ELSE state.tiles)
            /\ IsPermutation(state.tiles, state'.tiles)
        /\ MoveTile(i, -1) =>
            /\ Contents(state'.tiles)
                 = Contents(IF i > 1
                            THEN Swap(state.tiles, i, i - 1) ELSE state.tiles)
            /\ IsPermutation(state.tiles, state'.tiles)]_vars

\* the list without its i-th element
RemoveAt(tiles, i) ==
    [k \in 1..(Len(tiles) - 1) |-> IF k < i THEN tiles[k] ELSE tiles[k + 1]]

\* C9: a confirmed delete of the tile at index i leaves the previous list with
\* exactly that element removed and the others in their order; answered No it
\* leaves the state unchanged.
C9_DeleteOnlyThatTile ==
    [][\A i \in 1..Len(state.tiles) :
        /\ DeleteTile(i, TRUE) =>
            Contents(state'.tiles) = Contents(RemoveAt(state.tiles, i))
        /\ DeleteTile(i, FALSE) => UNCHANGED vars]_vars

====
